---- MODULE Spec2Model ----
(***************************************************************************)
(* Model of streamlit-app.py: the main() script that saves an uploaded     *)
(* FASTA file, runs the three external stages (p-distance, ML tree,        *)
(* subtype), displays the results read back from the output directory,     *)
(* removes the temporary file, reorganises the output directory and        *)
(* packages it as output.zip.                                              *)
(***************************************************************************)
EXTENDS Integers, Sequences, FiniteSets, TLC

VARIABLES pc, run, temp_files, query_id, fs, top, iqtree, dirs, zip,
          p_distance_output, tree_output, subtype_output,
          procs, errors, shown, trace, progress, progress_ints, changed

vars == <<pc, run, temp_files, query_id, fs, top, iqtree, dirs, zip,
          p_distance_output, tree_output, subtype_output,
          procs, errors, shown, trace, progress, progress_ints, changed>>

(* ------------------------------ bounds --------------------------------- *)

\* number of script runs (uploads) followed over one output directory
MaxRuns == 2

(* --------------------------- JSON / Python values ---------------------- *)

\* A decoded JSON value: a tagged pair.  Objects are functions from keys to
\* values; JSON null decodes to Python None.
Obj(o) == [t |-> "obj", o |-> o]
None == [t |-> "null", o |-> <<>>]

\* Python truth value of a decoded JSON value (None and {} are falsy).
Truthy(v) == v.t = "obj" /\ DOMAIN v.o # {}

\* Content of a path of the output directory.
Absent == [kind |-> "absent", val |-> None]
NotJson == [kind |-> "text", val |-> None]
Json(v) == [kind |-> "json", val |-> v]

\* str(True) / str(False)
PyStrBool(b) == IF b THEN "True" ELSE "False"

\* format(x, ".4f") for a number held in units of 1e-4, 0 <= n < 10000
Fmt4f(n) ==
    "0." \o (IF n < 10 THEN "000" ELSE IF n < 100 THEN "00"
             ELSE IF n < 1000 THEN "0" ELSE "") \o ToString(n)

\* sep.join(seq)
RECURSIVE Join(_, _)
Join(sep, s) ==
    IF Len(s) = 0 THEN ""
    ELSE IF Len(s) = 1 THEN s[1]
    ELSE s[1] \o sep \o Join(sep, Tail(s))

(* ------------------------------ file names ----------------------------- *)

\* A file name is the sequence of its pieces, so that "x in filename" is a
\* test on the pieces.
P_DISTANCE_JSON == <<"p_distance_output", ".json">>
ML_TREE_JSON == <<"ml_tree_output", ".json">>
SUBTYPE_JSON == <<"subtype_output", ".json">>
ResultFiles == {P_DISTANCE_JSON, ML_TREE_JSON, SUBTYPE_JSON}

\* The query identifier: the id of the first record, or None.
Id(s) == [t |-> "str", s |-> s]
NoId == [t |-> "null", s |-> ""]
\* f"{query_id}"
PyStr(q) == IF q.t = "null" THEN "None" ELSE q.s

\* side files of the tree stage, named from the query identifier
output_alignment(q) == <<PyStr(q), "_", "updated", ".fasta">>
output_tree(q) == <<PyStr(q), "_", "reoptimised">>
input_newick(q) == output_tree(q) \o <<".treefile">>

(* ------------------- what the external tools may write ----------------- *)

\* uploaded FASTA files, as the sequence of their record ids
Uploads == {<<"Q1">>, <<>>}

\* the id of the first record; falls off the loop (None) when there is none
extract_fasta_header(records) ==
    IF Len(records) = 0 THEN NoId ELSE Id(records[1])

\* exit statuses of an external process
ExitCodes == {0, 1}

\* texts an external process may leave on its stderr
StderrTexts == {"Traceback: alignment failed"}

NOT_DETERMINED == "Not determined"

PD_Full == [closest_reference |-> "Ref_A", p_distance |-> 1234, below_cutoff |-> TRUE]
PD_NoCutoff == [closest_reference |-> "Ref_A", p_distance |-> 1234]
EmptyObj == <<>>

Tree_Full == [status |-> "ok"]

Taxon_B == [taxon |-> "Ref_B", clade |-> "I", subtype |-> "Ia"]
Taxon_C == [taxon |-> "Ref_C", clade |-> "II", subtype |-> "IIb"]
Taxon_NoClade == [taxon |-> "Ref_C", subtype |-> "IIb"]

Summary_Full == [conflicting_taxa |-> <<Taxon_B, Taxon_C>>,
                 clades |-> <<"I", "II">>, subtypes |-> <<"Ia", "IIb">>]
Summary_NoClades == [conflicting_taxa |-> <<Taxon_B, Taxon_C>>,
                     subtypes |-> <<"Ia", "IIb">>]
Summary_BadTaxon == [conflicting_taxa |-> <<Taxon_B, Taxon_NoClade>>,
                     clades |-> <<"I", "II">>, subtypes |-> <<"Ia", "IIb">>]

SubtypeBase(c, a) ==
    [closest_reference_ml |-> "Ref_B", ml_distance |-> 521,
     conflicts |-> c, subtype_assignment |-> a]
WithSummary(o, s) ==
    [k \in DOMAIN o \cup {"conflict_summary"} |->
        IF k = "conflict_summary" THEN s ELSE o[k]]
Without(o, key) == [k \in DOMAIN o \ {key} |-> o[k]]

SubtypeObjs ==
    { SubtypeBase(FALSE, "Clade II"),
      WithSummary(SubtypeBase(FALSE, "Clade II"), Summary_Full),
      Without(SubtypeBase(FALSE, "Clade II"), "subtype_assignment"),
      WithSummary(SubtypeBase(TRUE, NOT_DETERMINED), Summary_Full),
      SubtypeBase(TRUE, NOT_DETERMINED),
      WithSummary(SubtypeBase(TRUE, "Clade I"), Summary_Full),
      SubtypeBase(TRUE, "Clade I"),
      WithSummary(SubtypeBase(TRUE, "Clade I"), Summary_NoClades),
      WithSummary(SubtypeBase(TRUE, "Clade I"), Summary_BadTaxon),
      EmptyObj }

\* contents a stage's process may leave at its result path
PDContents == {Absent, NotJson} \cup {Json(Obj(o)) : o \in {PD_Full, PD_NoCutoff, EmptyObj}}
TreeContents == {Absent, NotJson} \cup {Json(Obj(o)) : o \in {Tree_Full, EmptyObj}}
SubtypeContents == {Absent, NotJson} \cup {Json(Obj(o)) : o \in SubtypeObjs}

(* ------------------------------ messages ------------------------------- *)

\* one st.error call: the fixed text and the interpolated value
Err(text, arg) == [text |-> text, arg |-> arg]

\* str(CalledProcessError): the command and the exit status, not the streams
CalledProcessErrorStr(returncode) ==
    "Command returned non-zero exit status " \o ToString(returncode) \o "."

\* a loader that tells a missing file no differently from an undecodable one
LoadJson_MissingAsMalformed(content) ==
    IF content.kind # "json" THEN [exc |-> "JSONDecodeError", val |-> None]
    ELSE [exc |-> "", val |-> content.val]

\* with open(path) as file: json.load(file)
LoadJson(content) ==
    IF content.kind = "absent" THEN [exc |-> "FileNotFoundError", val |-> None]
    ELSE IF content.kind = "text" THEN [exc |-> "JSONDecodeError", val |-> None]
    ELSE [exc |-> "", val |-> content.val]

(* ---------------------------- stage runners ---------------------------- *)
\* Each runner is given the exit status and stderr of its process and the
\* content found at its result path afterwards; it yields the value returned
\* and the st.error calls made.  subprocess.run(..., check=True) raises
\* CalledProcessError on a nonzero status, so the returncode test that
\* follows it in the source is never taken.

calculate_p_distance(returncode, stderr, content) ==
    IF returncode # 0
    THEN [ret |-> None,
          errs |-> <<Err("Subprocess error: ", CalledProcessErrorStr(returncode))>>]
    ELSE LET r == LoadJson(content) IN
         IF r.exc = "FileNotFoundError"
         THEN [ret |-> None,
               errs |-> <<Err("Error: p_distance_output.json not found in output directory.", "")>>]
         ELSE IF r.exc = "JSONDecodeError"
         THEN [ret |-> None,
               errs |-> <<Err("Error: Could not decode JSON from p_distance_output.json", "")>>]
         ELSE [ret |-> r.val, errs |-> <<>>]

\* a runner that never looks at the exit status (check=False and no test)
infer_new_tree_IgnoreExit(returncode, stderr, content) ==
    [ret |-> LoadJson(content).val, errs |-> <<>>]

infer_new_tree(returncode, stderr, content) ==
    IF returncode # 0
    THEN [ret |-> None,
          errs |-> <<Err("Subprocess error: ", CalledProcessErrorStr(returncode))>>]
    ELSE LET r == LoadJson(content) IN
         IF r.exc = "FileNotFoundError"
         THEN [ret |-> None,
               errs |-> <<Err("Error: ml_tree_output.json not found in output directory.", "")>>]
         ELSE IF r.exc = "JSONDecodeError"
         THEN [ret |-> None,
               errs |-> <<Err("Error: Could not decode JSON from ml_tree_output.json", "")>>]
         ELSE [ret |-> r.val, errs |-> <<>>]

infer_subtype(returncode, stderr, content) ==
    IF returncode # 0
    THEN [ret |-> None,
          errs |-> <<Err("Subprocess error: ", CalledProcessErrorStr(returncode))>>]
    ELSE LET r == LoadJson(content) IN
         IF r.exc = "FileNotFoundError"
         THEN [ret |-> None,
               errs |-> <<Err("Error: subtype_output.json not found in output directory.", "")>>]
         ELSE IF r.exc = "JSONDecodeError"
         THEN [ret |-> None,
               errs |-> <<Err("Error: Could not decode JSON from subtype_output.json", "")>>]
         ELSE [ret |-> r.val, errs |-> <<>>]

(* --------------------------- display of results ------------------------ *)

\* one st.write call: where it lands, its fixed text and the interpolated value
Item(where, label, value) == [where |-> where, label |-> label, value |-> value]

\* One step of the display block: it writes its items, or raises.
Wr(where, label, value) == [exc |-> "", arg |-> "", items |-> <<Item(where, label, value)>>]
NoOp == [exc |-> "", arg |-> "", items |-> <<>>]
Raise(exc, arg) == [exc |-> exc, arg |-> arg, items |-> <<>>]

RECURSIVE FirstMissing(_, _)
FirstMissing(o, keys) ==
    IF Len(keys) = 0 THEN ""
    ELSE IF Head(keys) \notin DOMAIN o THEN Head(keys)
    ELSE FirstMissing(o, Tail(keys))

\* repr of a str key, as str(KeyError) gives it
KeyErrorStr(k) == "'" \o k \o "'"

\* step, preceded by the subscripts o[k] for k in keys (o a dict)
NeedRaw(o, keys, step) ==
    IF FirstMissing(o, keys) # "" THEN Raise("KeyError", KeyErrorStr(FirstMissing(o, keys)))
    ELSE step

\* the same for a decoded JSON value, which may be None
Need(v, keys, step) ==
    IF v.t # "obj" THEN Raise("TypeError", "'NoneType' object is not subscriptable")
    ELSE NeedRaw(v.o, keys, step)

GetRaw(o, k, default) == IF k \in DOMAIN o THEN o[k] ELSE default
Get(v, k, default) == IF v.t = "obj" THEN GetRaw(v.o, k, default) ELSE default

\* with open(path) as file: x = json.load(file), as a step
LoadStep(content, name) ==
    IF LoadJson(content).exc = "FileNotFoundError"
    THEN Raise("FileNotFoundError", "No such file or directory: output/" \o name[1] \o name[2])
    ELSE IF LoadJson(content).exc = "JSONDecodeError"
    THEN Raise("JSONDecodeError", "Expecting value")
    ELSE NoOp

TaxonInfo(taxon) ==
    GetRaw(taxon, "taxon", "") \o " (Clade " \o GetRaw(taxon, "clade", "")
        \o " Subtype " \o GetRaw(taxon, "subtype", "") \o ")"

\* the body of the inner try: the three conflict lines.  Its handler catches
\* IndexError only, which none of these subscripts raises.
ConflictSteps(subtype_result) ==
    LET summary == Get(subtype_result, "conflict_summary", EmptyObj)
        taxa == GetRaw(summary, "conflicting_taxa", <<>>)
    IN  <<Need(subtype_result, <<"conflict_summary">>, NoOp),
          NeedRaw(summary, <<"conflicting_taxa">>, NoOp)>>
        \o [i \in 1..Len(taxa) |-> NeedRaw(taxa[i], <<"taxon", "clade", "subtype">>, NoOp)]
        \o <<Wr("expander", "* **Conflicting Taxa:** ",
                    Join(", ", [i \in 1..Len(taxa) |-> TaxonInfo(taxa[i])])),
             NeedRaw(summary, <<"clades">>,
                Wr("expander", "* **Conflicting Clades:** ",
                    Join(", ", GetRaw(summary, "clades", <<>>)))),
             NeedRaw(summary, <<"subtypes">>,
                Wr("expander", "* **Conflicting Subtypes:** ",
                    Join(", ", GetRaw(summary, "subtypes", <<>>))))>>

CONSENSUS_LABEL == "* **Consensus Assignment:** Not determined due to conflicts."
ASSIGNMENT_LABEL == "\n**Subtype Assignment:** "

ExpanderSteps(subtype_result) ==
    <<Wr("expander", "Conflict Summary", ""),
      Need(subtype_result, <<"subtype_assignment">>, NoOp)>>
    \o (IF Get(subtype_result, "subtype_assignment", "") = NOT_DETERMINED
        THEN <<Wr("expander", CONSENSUS_LABEL, "")>>
        ELSE ConflictSteps(subtype_result))

\* a conflict test that looks for the summary instead of the flag
HasConflicts_BySummary(subtype_result) ==
    subtype_result.t = "obj" /\ "conflict_summary" \in DOMAIN subtype_result.o

\* if subtype_result['conflicts']:
HasConflicts(subtype_result) == Get(subtype_result, "conflicts", FALSE)

\* an assignment line that falls back on the first conflicting subtype
AssignmentSteps_Guess(subtype_result) ==
    LET a == Get(subtype_result, "subtype_assignment", "")
        subtypes == GetRaw(Get(subtype_result, "conflict_summary", EmptyObj), "subtypes", <<>>)
    IN  <<Need(subtype_result, <<"subtype_assignment">>,
            Wr("main", ASSIGNMENT_LABEL,
               IF a = NOT_DETERMINED /\ Len(subtypes) > 0 THEN subtypes[1] ELSE a))>>

AssignmentSteps(subtype_result) ==
    <<Need(subtype_result, <<"subtype_assignment">>,
        Wr("main", ASSIGNMENT_LABEL, Get(subtype_result, "subtype_assignment", "")))>>

\* the statements of the try block, in order
DisplaySteps(files) ==
    LET p_distance_result == files[P_DISTANCE_JSON].val
        subtype_result == files[SUBTYPE_JSON].val
    IN  <<LoadStep(files[P_DISTANCE_JSON], P_DISTANCE_JSON),
          LoadStep(files[ML_TREE_JSON], ML_TREE_JSON),
          LoadStep(files[SUBTYPE_JSON], SUBTYPE_JSON),
          Wr("main", "**Results Summary**", ""),
          Wr("col1", "**P-Distance Results**", ""),
          Need(p_distance_result, <<"closest_reference", "p_distance">>,
            Wr("col1", "* **Closest Reference:** ",
                Get(p_distance_result, "closest_reference", "") \o " ("
                \o Fmt4f(Get(p_distance_result, "p_distance", 0)) \o ")")),
          Need(p_distance_result, <<"below_cutoff">>,
            Wr("col1", "* **Below Cutoff:** ",
                PyStrBool(Get(p_distance_result, "below_cutoff", FALSE)))),
          Wr("col2", "**ML Patristic Distance Results**", ""),
          Need(subtype_result, <<"closest_reference_ml", "ml_distance">>,
            Wr("col2", "* **Closest Reference:** ",
                Get(subtype_result, "closest_reference_ml", "") \o " ("
                \o Fmt4f(Get(subtype_result, "ml_distance", 0)) \o ")")),
          Need(subtype_result, <<"conflicts">>,
            Wr("col2", "* **Conflicts:** ",
                PyStrBool(Get(subtype_result, "conflicts", FALSE))))>>
        \o (IF HasConflicts(subtype_result)
            THEN ExpanderSteps(subtype_result) ELSE <<>>)
        \o AssignmentSteps(subtype_result)

\* run the steps up to the first that raises
RECURSIVE RunSteps(_)
RunSteps(steps) ==
    IF Len(steps) = 0 THEN [items |-> <<>>, exc |-> "", arg |-> ""]
    ELSE IF Head(steps).exc # "" THEN [items |-> <<>>, exc |-> Head(steps).exc, arg |-> Head(steps).arg]
    ELSE LET r == RunSteps(Tail(steps))
         IN  [items |-> Head(steps).items \o r.items, exc |-> r.exc, arg |-> r.arg]

\* the except clauses of the display block
DisplayHandler(exc, arg) ==
    IF exc = "" THEN <<>>
    ELSE IF exc = "FileNotFoundError"
    THEN <<Err("Error loading results: File not found - ", arg)>>
    ELSE IF exc = "JSONDecodeError"
    THEN <<Err("Error loading results: JSON decode error - ", arg)>>
    ELSE IF exc = "KeyError"
    THEN <<Err("Error loading results: Key error - ", arg)>>
    ELSE <<Err("An unexpected error occurred: ", arg)>>

\* what the display block shows and which st.error calls it makes
display_results(files) ==
    LET r == RunSteps(DisplaySteps(files))
    IN  [items |-> r.items, errs |-> DisplayHandler(r.exc, r.arg)]

(* ------------------------- the output directory ------------------------ *)

\* "reoptimised" in filename or "updated" in filename
IsTreeFile(filename) ==
    \E i \in 1..Len(filename) : filename[i] \in {"reoptimised", "updated"}

\* os.listdir(output_dir), the regular files of it
TopFiles(files, sides) == {f \in ResultFiles : files[f].kind # "absent"} \cup sides

\* a walk that stops at the top of output/ and misses the subdirectory
ZipMembers_TopOnly(files, sides, sub) ==
    {[dir |-> "output", name |-> f] : f \in TopFiles(files, sides)}

\* the members written to output.zip: every file under output/, by its path
\* relative to the parent of output/
ZipMembers(files, sides, sub) ==
    {[dir |-> "output", name |-> f] : f \in TopFiles(files, sides)}
    \cup {[dir |-> "output/iqtree", name |-> f] : f \in sub}

NoZip == [exists |-> FALSE, members |-> {}]

\* What the output directory holds before the first run: os.makedirs(...,
\* exist_ok=True) takes the directory as it finds it.  Either nothing, or a
\* plain file and an empty directory left there earlier.
NoEntries == [files |-> {}, dirs |-> {}]
OldEntries == [files |-> {<<"notes", ".txt">>}, dirs |-> {<<"old", "_", "updated">>}]

\* the directories among os.listdir(output_dir) that the loop renames: the
\* loop tests the name only, never os.path.isfile
MovedDirs(names) == {d \in names : IsTreeFile(d)}

(* -------------------------------- state -------------------------------- *)

Init ==
    /\ pc = "idle"
    /\ run = 0
    /\ temp_files = {}
    /\ query_id = NoId
    /\ fs = [f \in ResultFiles |-> Absent]
    /\ \E found \in {NoEntries, OldEntries} :
        /\ top = found.files
        /\ dirs = [top |-> found.dirs, sub |-> {}]
    /\ iqtree = {}
    /\ zip = NoZip
    /\ p_distance_output = None
    /\ tree_output = None
    /\ subtype_output = None
    /\ procs = <<>>
    /\ errors = <<>>
    /\ shown = <<>>
    /\ trace = <<>>
    /\ progress = <<>>
    /\ progress_ints = {}
    /\ changed = FALSE

\* A value given to progress_bar.progress, held in units of 1/5900 so that
\* i/100 and 0.4 + (i/59)*0.59 are whole; progress_ints holds the positions
\* of the calls whose argument was an int.
Fraction(n) == n
Percent(k) == k * 5900

\* a tree loop that starts at 20%, as its comment has it
progress_value_From20(i) == Fraction(1180 + i * 59)

\* progress_value = 0.4 + (i / 59) * 0.59
progress_value(i) == Fraction(2360 + i * 59)

\* status_placeholder.write(...) before a stage, st.success(...) after it
Status(stage) == "status " \o stage
Success(stage) == "success " \o stage

\* one run of an external process: its exit status, its stderr, what the
\* runner then finds at the stage's result path, whether the process wrote
\* that file, and the side files it wrote
Proc(stage, returncode, stderr, found, wrote, sides) ==
    [stage |-> stage, returncode |-> returncode, stderr |-> stderr,
     found |-> found, wrote |-> wrote, sides |-> sides]

\* What is at a result path after the stage's process: what the process wrote
\* there, or else whatever was there before; nothing in the script clears it.
LeftAt(path, files, wrote, written) == IF wrote THEN written ELSE files[path]

\* a stage check that reports the failure but goes on to the next stage
after_stage_NoReturn(output, next) == next

\* "if output: ... else: st.error(...); return": where main() goes after a stage
after_stage(output, next) == IF Truthy(output) THEN next ELSE "idle"

\* main() with nothing uploaded: the body of "if input_fasta is not None" is
\* skipped.
NoUpload ==
    /\ pc = "idle"
    /\ run < MaxRuns
    /\ run' = run + 1
    /\ query_id' = NoId
    /\ p_distance_output' = None
    /\ tree_output' = None
    /\ subtype_output' = None
    /\ procs' = <<>>
    /\ errors' = <<>>
    /\ shown' = <<>>
    /\ trace' = <<>>
    /\ progress' = <<>>
    /\ progress_ints' = {}
    /\ changed' = FALSE
    /\ UNCHANGED <<pc, temp_files, fs, top, iqtree, dirs, zip>>

\* main() up to the first stage: the upload is saved to a temporary file that
\* outlives its "with" block (delete=False), the header is extracted and the
\* output directory is made.
Upload ==
    /\ pc = "idle"
    /\ run < MaxRuns
    /\ \E records \in Uploads :
        query_id' = extract_fasta_header(records)
    /\ run' = run + 1
    /\ temp_files' = temp_files \cup {run + 1}
    /\ p_distance_output' = None
    /\ tree_output' = None
    /\ subtype_output' = None
    /\ procs' = <<>>
    /\ errors' = <<>>
    /\ shown' = <<>>
    /\ trace' = <<"upload">>
    /\ progress' = <<Percent(0)>>
    /\ progress_ints' = {1}
    /\ changed' = FALSE
    /\ pc' = "distance"
    /\ UNCHANGED <<fs, top, iqtree, dirs, zip>>

\* What a process may have done to its output files: one that exits zero
\* wrote them or left the paths as they were; one that exits non-zero is taken
\* to have left them as they were (its result is not read, since check=True
\* raises before the file is opened).
Wrote(returncode) == IF returncode = 0 THEN BOOLEAN ELSE {FALSE}

\* The p-distance stage: the process runs (any exit status, any stderr; it
\* writes its result file or leaves the path as it was), the runner reads the
\* result, and main() goes on or returns.
Distance ==
    /\ pc = "distance"
    /\ \E returncode \in ExitCodes, stderr \in StderrTexts :
       \E wrote \in Wrote(returncode),
          written \in PDContents \ {Absent} :
        LET content == LeftAt(P_DISTANCE_JSON, fs, wrote, written)
            r == calculate_p_distance(returncode, stderr, content) IN
        /\ fs' = [fs EXCEPT ![P_DISTANCE_JSON] = content]
        /\ procs' = Append(procs, Proc("Distance", returncode, stderr, content, wrote, {}))
        /\ p_distance_output' = r.ret
        /\ pc' = after_stage(r.ret, "tree")
        /\ errors' = IF Truthy(r.ret) THEN errors \o r.errs
                     ELSE (errors \o r.errs) \o <<Err("Failed to calculate p-distance.", "")>>
        /\ trace' = trace \o <<Status("Distance"), "Distance">>
                        \o (IF Truthy(r.ret) THEN <<Success("Distance")>> ELSE <<>>)
    /\ progress' = progress \o [i \in 1..40 |-> Fraction((i - 1) * 59)]
    /\ UNCHANGED <<run, temp_files, query_id, top, iqtree, dirs, zip,
                   tree_output, subtype_output, shown, progress_ints, changed>>

\* The tree stage; its process may also leave the updated alignment and the
\* tree file in the output directory.
TreeInfer ==
    /\ pc = "tree"
    /\ \E returncode \in ExitCodes, stderr \in StderrTexts :
       \E wrote \in Wrote(returncode),
          written \in TreeContents \ {Absent},
          sides \in {IF w THEN {output_alignment(query_id), input_newick(query_id)}
                      ELSE {} : w \in Wrote(returncode)} :
        LET content == LeftAt(ML_TREE_JSON, fs, wrote, written)
            r == infer_new_tree(returncode, stderr, content) IN
        /\ fs' = [fs EXCEPT ![ML_TREE_JSON] = content]
        /\ top' = top \cup sides
        /\ procs' = Append(procs, Proc("TreeInfer", returncode, stderr, content, wrote, sides))
        /\ tree_output' = r.ret
        /\ pc' = after_stage(r.ret, "subtype")
        /\ errors' = IF Truthy(r.ret) THEN errors \o r.errs
                     ELSE (errors \o r.errs) \o <<Err("Failed to infer new ML tree.", "")>>
        /\ trace' = trace \o <<Status("TreeInfer"), "TreeInfer">>
                        \o (IF Truthy(r.ret) THEN <<Success("TreeInfer")>> ELSE <<>>)
    /\ progress' = progress \o [i \in 1..59 |-> progress_value(i - 1)]
    /\ UNCHANGED <<run, temp_files, query_id, iqtree, dirs, zip,
                   p_distance_output, subtype_output, shown, progress_ints, changed>>

\* The subtype stage.
SubtypeInfer ==
    /\ pc = "subtype"
    /\ \E returncode \in ExitCodes, stderr \in StderrTexts :
       \E wrote \in Wrote(returncode),
          written \in SubtypeContents \ {Absent} :
        LET content == LeftAt(SUBTYPE_JSON, fs, wrote, written)
            r == infer_subtype(returncode, stderr, content) IN
        /\ fs' = [fs EXCEPT ![SUBTYPE_JSON] = content]
        /\ procs' = Append(procs, Proc("SubtypeInfer", returncode, stderr, content, wrote, {}))
        /\ subtype_output' = r.ret
        /\ pc' = after_stage(r.ret, "display")
        /\ errors' = IF Truthy(r.ret) THEN errors \o r.errs
                     ELSE (errors \o r.errs) \o <<Err("Failed to infer subtype.", "")>>
        /\ trace' = trace \o <<Status("SubtypeInfer"), "SubtypeInfer">>
                        \o (IF Truthy(r.ret) THEN <<Success("SubtypeInfer")>> ELSE <<>>)
        /\ progress' = IF Truthy(r.ret) THEN Append(progress, Percent(100)) ELSE progress
        /\ progress_ints' = IF Truthy(r.ret) THEN progress_ints \cup {Len(progress) + 1}
                            ELSE progress_ints
    /\ UNCHANGED <<run, temp_files, query_id, top, iqtree, dirs, zip,
                   p_distance_output, tree_output, shown, changed>>

\* While main() sleeps before reading the result files again, something else
\* using the same output directory removes the last of them.
ExternalChange ==
    /\ pc = "display"
    /\ ~changed
    /\ \E f \in {SUBTYPE_JSON} :
        /\ fs[f] # Absent
        /\ fs' = [fs EXCEPT ![f] = Absent]
    /\ changed' = TRUE
    /\ UNCHANGED <<pc, run, temp_files, query_id, top, iqtree, dirs, zip,
                   p_distance_output, tree_output, subtype_output,
                   procs, errors, shown, trace, progress, progress_ints>>

\* The display block: the three result files are read again and shown.
Display ==
    /\ pc = "display"
    /\ LET r == display_results(fs) IN
        /\ shown' = shown \o r.items
        /\ errors' = errors \o r.errs
    /\ trace' = Append(trace, "display")
    /\ pc' = "finish"
    /\ UNCHANGED <<run, temp_files, query_id, fs, top, iqtree, dirs, zip,
                   p_distance_output, tree_output, subtype_output, procs, progress, progress_ints, changed>>

\* The rest of main(): the temporary file is removed, the tree files are moved
\* to output/iqtree, output.zip is written and the download is offered.
Finish ==
    /\ pc = "finish"
    /\ temp_files' = temp_files \ {run}
    /\ top' = {f \in top : ~IsTreeFile(f)}
    /\ iqtree' = iqtree \cup {f \in top : IsTreeFile(f)}
    /\ dirs' = [top |-> dirs.top \ MovedDirs(dirs.top),
                sub |-> dirs.sub \cup MovedDirs(dirs.top)]
    /\ zip' = [exists |-> TRUE, members |-> ZipMembers(fs, top', iqtree')]
    /\ trace' = trace \o <<"remove_temp", "reorganize", "zip", "download">>
    /\ pc' = "idle"
    /\ UNCHANGED <<run, query_id, fs, p_distance_output, tree_output, subtype_output,
                   procs, errors, shown, progress, progress_ints, changed>>

Next ==
    \/ NoUpload
    \/ Upload
    \/ Distance
    \/ TreeInfer
    \/ SubtypeInfer
    \/ ExternalChange
    \/ Display
    \/ Finish

Spec == Init /\ [][Next]_vars

(* ------------------------- vocabulary of the claims -------------------- *)

Range(seq) == {seq[i] : i \in 1..Len(seq)}

StageNames == {"Distance", "TreeInfer", "SubtypeInfer"}
IsStage(e) == e \in StageNames

\* the stages invoked so far in this run, in order
Invoked == SelectSeq(trace, IsStage)

\* the value main() holds for a stage
Output(stage) ==
    IF stage = "Distance" THEN p_distance_output
    ELSE IF stage = "TreeInfer" THEN tree_output
    ELSE subtype_output

\* the stage's process exited with status 0 and the runner returned its payload
ReturnedSuccess(stage) ==
    \E i \in 1..Len(procs) :
        /\ procs[i].stage = stage
        /\ procs[i].returncode = 0
        /\ procs[i].found.kind = "json"
        /\ Output(stage) = procs[i].found.val
        /\ Truthy(Output(stage))

\* the run that was started last has ended
RunEnded == pc = "idle" /\ run > 0

FailedText(stage) ==
    IF stage = "Distance" THEN "Failed to calculate p-distance."
    ELSE IF stage = "TreeInfer" THEN "Failed to infer new ML tree."
    ELSE "Failed to infer subtype."

ErrorTexts == {errors[j].text : j \in 1..Len(errors)}

PackagingEvents == {"reorganize", "zip", "download"}

(* -------------------------------- C1 ----------------------------------- *)

\* C1: in every run the stages are invoked in the order Distance, TreeInfer,
\* SubtypeInfer; TreeInfer is invoked only after Distance returned success in
\* the same run, and SubtypeInfer only after Distance and TreeInfer both did.
C1_StageOrder ==
    /\ Invoked \in {<<>>, <<"Distance">>, <<"Distance", "TreeInfer">>,
                    <<"Distance", "TreeInfer", "SubtypeInfer">>}
    /\ "TreeInfer" \in Range(trace) => ReturnedSuccess("Distance")
    /\ "SubtypeInfer" \in Range(trace) =>
            ReturnedSuccess("Distance") /\ ReturnedSuccess("TreeInfer")

\* all three stages were invoked, the last one after two successes
C1_Witness ==
    /\ Invoked = <<"Distance", "TreeInfer", "SubtypeInfer">>
    /\ ReturnedSuccess("TreeInfer")

(* -------------------------------- C2 ----------------------------------- *)

\* C2: once a run that created the temporary uploaded-sequence file has ended,
\* that file is absent, whichever way the run ended.
C2_TempFileRemoved ==
    (RunEnded /\ "upload" \in Range(trace)) => run \notin temp_files

(* -------------------------------- C3 ----------------------------------- *)

\* the display block raised
DisplayFailed ==
    /\ "display" \in Range(trace)
    /\ errors # <<>>

\* C3: the results report is all-or-nothing: nothing of the results summary is
\* displayed unless all three stages succeeded and the display of all three
\* results went through without an error.
C3_ReportAllOrNothing ==
    shown # <<>> =>
        /\ \A stage \in StageNames : ReturnedSuccess(stage)
        /\ ~DisplayFailed
        /\ \E k \in 1..Len(shown) : shown[k].label = ASSIGNMENT_LABEL

(* -------------------------------- C4 ----------------------------------- *)

\* C4: when the display of the results fails after all stages succeeded, the
\* run does not go on to reorganise the output directory, write output.zip or
\* offer the download.
C4_DisplayFailureEndsRun ==
    (RunEnded /\ DisplayFailed) => Range(trace) \cap PackagingEvents = {}

(* -------------------------------- C5 ----------------------------------- *)

\* the process exited nonzero, or left no decodable result
ProcFailed(p) == p.returncode # 0 \/ p.found.kind # "json"

\* C5: in a run where a stage fails, the failure is reported for that stage,
\* no later stage is invoked, and the output directory is not reorganised,
\* output.zip is not written and no download is offered in that run.
C5_FailedStageEndsRun ==
    \A i \in 1..Len(procs) :
        ProcFailed(procs[i]) =>
            /\ Output(procs[i].stage) = None
            /\ FailedText(procs[i].stage) \in ErrorTexts
            /\ i = Len(procs)
            /\ Invoked[Len(Invoked)] = procs[i].stage
            /\ pc = "idle"
            /\ Range(trace) \cap PackagingEvents = {}

\* the tree stage failed after the distance stage succeeded
C5_Witness ==
    /\ Len(procs) = 2
    /\ procs[2].stage = "TreeInfer"
    /\ procs[2].returncode # 0
    /\ procs[2].found.kind = "json"
    /\ Truthy(procs[2].found.val)
    /\ RunEnded

(* -------------------------------- C6 ----------------------------------- *)

\* C6: when a stage's process exits with a nonzero status, the runner returns
\* failure and the text the process wrote to stderr is reported to the user.
C6_StderrReported ==
    \A i \in 1..Len(procs) :
        procs[i].returncode # 0 =>
            /\ Output(procs[i].stage) = None
            /\ \E j \in 1..Len(errors) : errors[j].arg = procs[i].stderr

(* -------------------------------- C7 ----------------------------------- *)

MissingText(stage) ==
    IF stage = "Distance" THEN "Error: p_distance_output.json not found in output directory."
    ELSE IF stage = "TreeInfer" THEN "Error: ml_tree_output.json not found in output directory."
    ELSE "Error: subtype_output.json not found in output directory."

MalformedText(stage) ==
    IF stage = "Distance" THEN "Error: Could not decode JSON from p_distance_output.json"
    ELSE IF stage = "TreeInfer" THEN "Error: Could not decode JSON from ml_tree_output.json"
    ELSE "Error: Could not decode JSON from subtype_output.json"

ProcessFailureText == "Subprocess error: "

\* C7: when a stage's process exits with status 0 and the result file is
\* absent, the runner returns no payload and reports a missing file; when the
\* file is there but is not JSON, it returns no payload and reports an
\* undecodable file; each report is told from the other and from a process
\* failure.
C7_ArtifactFailuresClassified ==
    \A i \in 1..Len(procs) :
        LET stage == procs[i].stage IN
        procs[i].returncode = 0 =>
            /\ procs[i].found.kind = "absent" =>
                /\ Output(stage) = None
                /\ MissingText(stage) \in ErrorTexts
                /\ MalformedText(stage) \notin ErrorTexts
                /\ ProcessFailureText \notin ErrorTexts
            /\ procs[i].found.kind = "text" =>
                /\ Output(stage) = None
                /\ MalformedText(stage) \in ErrorTexts
                /\ MissingText(stage) \notin ErrorTexts
                /\ ProcessFailureText \notin ErrorTexts

\* the subtype process exited with status 0 and left no result file
C7_Witness ==
    /\ Len(procs) = 3
    /\ procs[3].returncode = 0
    /\ procs[3].found.kind = "absent"
    /\ MissingText("SubtypeInfer") \in ErrorTexts

(* -------------------------------- C8 ----------------------------------- *)

\* the result shown is a JSON object
IsObject(content) == content.kind = "json" /\ content.val.t = "obj"

SummaryWellFormed(o) ==
    /\ "conflict_summary" \in DOMAIN o
    /\ {"conflicting_taxa", "clades", "subtypes"} \subseteq DOMAIN o.conflict_summary
    /\ \A i \in 1..Len(o.conflict_summary.conflicting_taxa) :
            {"taxon", "clade", "subtype"} \subseteq DOMAIN o.conflict_summary.conflicting_taxa[i]

\* the display block ran on results that are complete but for the summary
CompleteButSummary ==
    /\ pc = "finish"
    /\ IsObject(fs[P_DISTANCE_JSON]) /\ fs[P_DISTANCE_JSON].val.o = PD_Full
    /\ IsObject(fs[ML_TREE_JSON])
    /\ IsObject(fs[SUBTYPE_JSON])
    /\ DOMAIN SubtypeBase(TRUE, "") \subseteq DOMAIN fs[SUBTYPE_JSON].val.o

\* the texts of the errors reported for any other fault of the result files
OtherLoadErrorTexts ==
    {"Error loading results: File not found - ",
     "Error loading results: JSON decode error - ",
     "Error loading results: Key error - ",
     "An unexpected error occurred: "}

\* C8: when the subtype result has conflicts=true and its conflict summary is
\* absent or malformed, an error of its own kind is reported, distinct from
\* the error reported for any other missing result field.
C8_DistinctConflictSummaryError ==
    (/\ CompleteButSummary
     /\ fs[SUBTYPE_JSON].val.o.conflicts
     /\ ~SummaryWellFormed(fs[SUBTYPE_JSON].val.o))
    => \E j \in 1..Len(errors) : errors[j].text \notin OtherLoadErrorTexts

(* -------------------------------- C9 ----------------------------------- *)

\* the subtype result the display block read, with its conflicts flag
SubtypeShown(flag) ==
    /\ pc = "finish"
    /\ IsObject(fs[SUBTYPE_JSON])
    /\ "conflicts" \in DOMAIN fs[SUBTYPE_JSON].val.o
    /\ fs[SUBTYPE_JSON].val.o.conflicts = flag

AssignmentItems == {k \in 1..Len(shown) : shown[k].label = ASSIGNMENT_LABEL}

\* C9: when the subtype result has conflicts=false, nothing of a conflict
\* summary is displayed, whatever conflict_summary the result carries, and the
\* subtype assignment displayed is the result's subtype_assignment unchanged.
C9_NoConflictsVerbatim ==
    SubtypeShown(FALSE) =>
        LET o == fs[SUBTYPE_JSON].val.o IN
        /\ \A k \in 1..Len(shown) : shown[k].where # "expander"
        /\ \A k \in AssignmentItems :
                /\ "subtype_assignment" \in DOMAIN o
                /\ shown[k].value = o.subtype_assignment
        /\ errors = <<>> => AssignmentItems # {}

\* a result with conflicts=false that carries a conflict summary was displayed
C9_Witness ==
    /\ SubtypeShown(FALSE)
    /\ "conflict_summary" \in DOMAIN fs[SUBTYPE_JSON].val.o
    /\ AssignmentItems # {}

(* -------------------------------- C10 ---------------------------------- *)

NotDeterminedShown ==
    /\ SubtypeShown(TRUE)
    /\ "subtype_assignment" \in DOMAIN fs[SUBTYPE_JSON].val.o
    /\ fs[SUBTYPE_JSON].val.o.subtype_assignment = NOT_DETERMINED

\* C10: when the subtype result has conflicts=true and subtype_assignment
\* "Not determined", the report says the consensus assignment is not
\* determined, and the subtype assignment displayed is exactly
\* "Not determined", never a clade or subtype picked by the display.
C10_NotDeterminedReported ==
    NotDeterminedShown =>
        /\ \A k \in AssignmentItems : shown[k].value = NOT_DETERMINED
        /\ errors = <<>> =>
            /\ \E k \in 1..Len(shown) : shown[k] = Item("expander", CONSENSUS_LABEL, "")
            /\ AssignmentItems # {}

\* an undetermined result that carries a full conflict summary was displayed
C10_Witness ==
    /\ NotDeterminedShown
    /\ SummaryWellFormed(fs[SUBTYPE_JSON].val.o)
    /\ AssignmentItems # {}
    /\ errors = <<>>

(* -------------------------------- C11 ---------------------------------- *)

ExpanderValues(label) ==
    {shown[k].value : k \in {j \in 1..Len(shown) :
        shown[j].where = "expander" /\ shown[j].label = label}}

\* C11: when the subtype result has conflicts=true, subtype_assignment
\* "Not determined" and a well-formed conflict summary, the report lists every
\* conflicting taxon with its clade and subtype, the conflicting clades and
\* the conflicting subtypes, besides saying the assignment is not determined.
C11_UndeterminedListsConflicts ==
    (/\ NotDeterminedShown
     /\ SummaryWellFormed(fs[SUBTYPE_JSON].val.o)
     /\ errors = <<>>)
    => LET summary == fs[SUBTYPE_JSON].val.o.conflict_summary IN
       /\ \E k \in 1..Len(shown) : shown[k] = Item("expander", CONSENSUS_LABEL, "")
       /\ ExpanderValues("* **Conflicting Taxa:** ")
            = {Join(", ", [i \in 1..Len(summary.conflicting_taxa) |->
                            TaxonInfo(summary.conflicting_taxa[i])])}
       /\ ExpanderValues("* **Conflicting Clades:** ") = {Join(", ", summary.clades)}
       /\ ExpanderValues("* **Conflicting Subtypes:** ") = {Join(", ", summary.subtypes)}

(* -------------------------------- C12 ---------------------------------- *)

\* C12: the reorganisation moves every file of the output directory whose
\* name contains "updated" or "reoptimised" into iqtree under the same name,
\* and leaves every other entry (the other files, and whatever is not a
\* regular file) where it was.
C12_Reorganisation ==
    [][(pc = "finish" /\ pc' = "idle") =>
        /\ \A f \in top : IsTreeFile(f) => (f \in iqtree' /\ f \notin top')
        /\ \A f \in top : ~IsTreeFile(f) => f \in top'
        /\ top' \subseteq top
        /\ fs' = fs
        /\ dirs' = dirs]_vars

(* -------------------------------- C13 ---------------------------------- *)

\* the names of the members of output.zip under one directory
MemberNames(dir) == {m.name : m \in {x \in zip.members : x.dir = dir}}

\* output.zip was written in the run that has just ended
Packaged == RunEnded /\ "zip" \in Range(trace)

\* C13: the members of output.zip are the regular files found anywhere under
\* the output directory at packaging time, each under its path relative to
\* the parent of the output directory (so every path starts with "output");
\* packaging over an earlier output.zip gives the member set of the directory
\* as it then is.
C13_ZipMirrorsOutput ==
    Packaged =>
        /\ zip.exists
        /\ \A m \in zip.members : m.dir \in {"output", "output/iqtree"}
        /\ MemberNames("output")
            = top \cup {f \in ResultFiles : fs[f].kind # "absent"}
        /\ MemberNames("output/iqtree") = iqtree

\* a second packaging, over the archive of the run before, with files both at
\* the top of output/ and in output/iqtree
C13_Witness ==
    /\ Packaged
    /\ run = 2
    /\ iqtree # {}
    /\ top # {}
    /\ \E f \in ResultFiles : fs[f].kind = "absent"

(* -------------------------------- C14 ---------------------------------- *)

\* the number given to the progress bar by call k, in units of 1/5900
RawValue(k) == progress[k]

\* the completion the progress bar shows for it: st.progress reads an int as
\* a percentage and a float as a fraction
Completion(k) == IF k \in progress_ints THEN progress[k] \div 100 ELSE progress[k]

Position(e) == {k \in 1..Len(trace) : trace[k] = e}

\* every stage invoked has its status written before it, and its success
\* written after it when main() took it as succeeded
StageEvents ==
    \A stage \in Range(Invoked) :
        /\ \E a \in Position(Status(stage)) : \E b \in Position(stage) : a < b
        /\ ReturnedSuccess(stage) =>
            \E b \in Position(stage) : \E c \in Position(Success(stage)) : b < c

WrittenByTreeInfer(f) ==
    \E i \in 1..Len(procs) : procs[i].stage = "TreeInfer" /\ f \in procs[i].sides

\* C15: SubtypeInfer is invoked in a run only if the tree file
\* {query_id}_reoptimised.treefile it is given exists in the output directory
\* at that moment and was produced by that run's TreeInfer stage.
C15_TreeFileBeforeSubtype ==
    ("SubtypeInfer" \in Range(Invoked) /\ "reorganize" \notin Range(trace)) =>
        /\ input_newick(query_id) \in top
        /\ WrittenByTreeInfer(input_newick(query_id))

(* -------------------------------- C16 ---------------------------------- *)

\* main() took the stage as succeeded
TreatedAsSuccessful(stage) == Success(stage) \in Range(trace)

\* C16: over runs sharing the output directory, a stage is treated as
\* successful in a run only if the result file its runner read was written by
\* that stage's process during that run; a file left by an earlier run is
\* never accepted as the run's stage output.
C16_ResultWrittenThisRun ==
    \A i \in 1..Len(procs) :
        TreatedAsSuccessful(procs[i].stage) => procs[i].wrote

(* -------------------------------- C17 ---------------------------------- *)

\* main() went on from the stage: it reported no failure for it
Advanced(stage) ==
    /\ FailedText(stage) \notin ErrorTexts
    /\ TreatedAsSuccessful(stage)

\* C17: whenever a stage's process exits with status zero and its output file
\* is present and decodes as JSON, main() treats the stage as successful and
\* goes on, whatever the decoded value is (an empty object included).
C17_AnyJsonAdvances ==
    \A i \in 1..Len(procs) :
        (procs[i].returncode = 0 /\ procs[i].found.kind = "json") =>
            Advanced(procs[i].stage)

(* -------------------------------- C18 ---------------------------------- *)

\* the paths main() derives from the query identifier
DerivedPaths(q) == {output_alignment(q), output_tree(q), input_newick(q)}

\* C18: in a run whose upload holds no sequence record, so that
\* extract_fasta_header yields no identifier, none of the stages is invoked
\* and no output path is derived from the absent identifier.
C18_NoStageWithoutQuery ==
    ("upload" \in Range(trace) /\ query_id = NoId) =>
        /\ Invoked = <<>>
        /\ \A i \in 1..Len(procs) : procs[i].sides \cap DerivedPaths(NoId) = {}

====
